---- MODULE Spec2Model ----
(***************************************************************************)
(* Model of the junior-debug backend: the response normalizer              *)
(* (AIService._parse_ai_response), the provider dispatcher                 *)
(* (AIService.analyze_code, _call_gemini, _call_openai) and the analyze    *)
(* endpoint's failure mapping (routers/analyze.py).                        *)
(*                                                                         *)
(* Text is a sequence of one-character tokens.  Each token stands for one  *)
(* character class of the real text:                                       *)
(*   "{" "}" "[" "]" ":" ","   the JSON punctuation itself                 *)
(*   "q"                       a double quote                              *)
(*   "c" "e" "t" "d"           the words code, explanations, title,        *)
(*                             description                                 *)
(*   "a"                       any other letter (prose, string content)    *)
(*   "1"                       a digit                                     *)
(***************************************************************************)
EXTENDS Integers, Sequences, FiniteSets, TLC

\* ------------------------------------------------------------------ bounds
\* longest arbitrary raw text
MaxLen == 3
\* longest prose/brace run put before or after an embedded object
MaxAffix == 1
\* longest value of an embedded object's code string
MaxCode == 2

\* ------------------------------------------------------------------ text
Tokens == {"{", "}", "[", "]", ":", ",", "q", "c", "e", "t", "d", "a", "1"}

SeqsUpTo(S, n) == UNION {[1..k -> S] : k \in 0..n}

\* str.find / str.rfind of a single character, 0-based, -1 when absent
PyFind(s, ch) ==
    IF \E p \in 1..Len(s) : s[p] = ch
    THEN (CHOOSE p \in 1..Len(s) : s[p] = ch /\ \A r \in 1..(p - 1) : s[r] # ch) - 1
    ELSE -1

PyRFind(s, ch) ==
    IF \E p \in 1..Len(s) : s[p] = ch
    THEN (CHOOSE p \in 1..Len(s) : s[p] = ch /\ \A r \in (p + 1)..Len(s) : s[r] # ch) - 1
    ELSE -1

\* s[a:b] for 0 <= a <= b <= len(s)
PySlice(s, a, b) == SubSeq(s, a + 1, b)

\* ------------------------------------------------------------------ json.loads
JStr(x) == [k |-> "str", s |-> x, items |-> <<>>]
JNum(x) == [k |-> "num", s |-> x, items |-> <<>>]
JArr(xs) == [k |-> "arr", s |-> <<>>, items |-> xs]
JObj(ms) == [k |-> "obj", s |-> <<>>, items |-> ms]

POk(v, p) == [ok |-> TRUE, v |-> v, p |-> p]
PFail == [ok |-> FALSE, v |-> JNum(<<>>), p |-> 0]

Tok(s, p) == IF p >= 1 /\ p <= Len(s) THEN s[p] ELSE "EOF"

\* position of the quote closing a string whose content starts at p, 0 if none
RECURSIVE StrEnd(_, _)
StrEnd(s, p) ==
    IF p > Len(s) THEN 0
    ELSE IF s[p] = "q" THEN p
    ELSE StrEnd(s, p + 1)

\* the string opening at p and closing at e
PStringTo(s, p, e) ==
    IF Tok(s, p) # "q" \/ e = 0 THEN PFail
    ELSE POk(JStr(SubSeq(s, p + 1, e - 1)), e + 1)

PString(s, p) == PStringTo(s, p, StrEnd(s, p + 1))

RECURSIVE NumEnd(_, _)
NumEnd(s, p) == IF Tok(s, p) = "1" THEN NumEnd(s, p + 1) ELSE p

PNumberTo(s, p, e) == POk(JNum(SubSeq(s, p, e - 1)), e)

PNumber(s, p) == PNumberTo(s, p, NumEnd(s, p))

\* the recursive-descent decoder: a value at p; the elements of an array from
\* p on (acc: those before p); the members of an object from p on
RECURSIVE PValue(_, _), PElements(_, _, _), PElementsAfter(_, _, _)
RECURSIVE PMembers(_, _, _), PMembersKey(_, _, _), PMembersVal(_, _, _, _)
PValue(s, p) ==
    CASE Tok(s, p) = "q" -> PString(s, p)
      [] Tok(s, p) = "1" -> PNumber(s, p)
      [] Tok(s, p) = "[" ->
            IF Tok(s, p + 1) = "]" THEN POk(JArr(<<>>), p + 2)
            ELSE PElements(s, p + 1, <<>>)
      [] Tok(s, p) = "{" ->
            IF Tok(s, p + 1) = "}" THEN POk(JObj(<<>>), p + 2)
            ELSE PMembers(s, p + 1, <<>>)
      [] OTHER -> PFail

\* r: the element just decoded
PElementsAfter(s, acc, r) ==
    IF ~r.ok THEN PFail
    ELSE IF Tok(s, r.p) = "," THEN PElements(s, r.p + 1, Append(acc, r.v))
    ELSE IF Tok(s, r.p) = "]" THEN POk(JArr(Append(acc, r.v)), r.p + 1)
    ELSE PFail

PElements(s, p, acc) == PElementsAfter(s, acc, PValue(s, p))

\* r: the value just decoded for the key
PMembersVal(s, acc, key, r) ==
    IF ~r.ok THEN PFail
    ELSE IF Tok(s, r.p) = ","
         THEN PMembers(s, r.p + 1, Append(acc, [key |-> key, val |-> r.v]))
    ELSE IF Tok(s, r.p) = "}"
         THEN POk(JObj(Append(acc, [key |-> key, val |-> r.v])), r.p + 1)
    ELSE PFail

\* key: the member's key string just decoded
PMembersKey(s, acc, key) ==
    IF ~key.ok \/ Tok(s, key.p) # ":" THEN PFail
    ELSE PMembersVal(s, acc, key.v.s, PValue(s, key.p + 1))

PMembers(s, p, acc) == PMembersKey(s, acc, PString(s, p))

\* r: the value decoded at the start of s
JsonLoadsEnd(s, r) ==
    IF r.ok /\ r.p = Len(s) + 1
    THEN [exc |-> "none", v |-> r.v]
    ELSE [exc |-> "JSONDecodeError", v |-> PFail.v]

\* json.loads(s): the whole of s is one JSON value, else JSONDecodeError
JsonLoads(s) == JsonLoadsEnd(s, PValue(s, 1))

\* ------------------------------------------------------------------ AnalyzeResponse(**data)
\* dict semantics of a parsed JSON object: the last member with a key wins
HasKey(ms, key) == \E n \in 1..Len(ms) : ms[n].key = key

GetKey(ms, key) ==
    ms[CHOOSE n \in 1..Len(ms) :
            ms[n].key = key /\ \A r \in (n + 1)..Len(ms) : ms[r].key # key].val

\* a `str` field: a JSON string is accepted; a JSON number is turned into its
\* digits by pydantic 1.x (coerce) and rejected by pydantic 2.x
StrFieldOk(v, coerce) == v.k = "str" \/ (coerce /\ v.k = "num")

\* Explanation(**item): title and description, both str; other keys ignored
ExplanationOk(v, coerce) ==
    /\ v.k = "obj"
    /\ HasKey(v.items, <<"t">>) /\ StrFieldOk(GetKey(v.items, <<"t">>), coerce)
    /\ HasKey(v.items, <<"d">>) /\ StrFieldOk(GetKey(v.items, <<"d">>), coerce)

Explanation(v) ==
    [title |-> GetKey(v.items, <<"t">>).s, description |-> GetKey(v.items, <<"d">>).s]

NoResponse == [code |-> <<>>, explanations |-> <<>>]

\* AnalyzeResponse(**data): TypeError when data is no mapping, ValidationError
\* when a field is missing or has the wrong type
AnalyzeResponse(data, coerce) ==
    IF data.k # "obj" THEN [exc |-> "TypeError", r |-> NoResponse]
    ELSE IF ~(/\ HasKey(data.items, <<"c">>)
              /\ StrFieldOk(GetKey(data.items, <<"c">>), coerce)
              /\ HasKey(data.items, <<"e">>)
              /\ GetKey(data.items, <<"e">>).k = "arr"
              /\ \A n \in 1..Len(GetKey(data.items, <<"e">>).items) :
                    ExplanationOk(GetKey(data.items, <<"e">>).items[n], coerce))
    THEN [exc |-> "ValidationError", r |-> NoResponse]
    ELSE LET ex == GetKey(data.items, <<"e">>).items
         IN  [exc |-> "none",
              r |-> [code |-> GetKey(data.items, <<"c">>).s,
                     explanations |-> [n \in 1..Len(ex) |-> Explanation(ex[n])]]]

\* ------------------------------------------------------------------ _parse_ai_response
\* mutant: `except json.JSONDecodeError` instead of `except Exception`
ExceptCatchesDecodeErrorOnly(exc) == exc = "JSONDecodeError"

\* `except Exception` in try_parse_json_segment: JSONDecodeError, TypeError and
\* pydantic's ValidationError are all subclasses of Exception
ExceptCatches(exc) == exc \in {"JSONDecodeError", "TypeError", "ValidationError"}

\* data = json.loads(s); AnalyzeResponse(**data)
LoadedResponse(j, coerce) ==
    IF j.exc = "none" THEN AnalyzeResponse(j.v, coerce)
    ELSE [exc |-> j.exc, r |-> NoResponse]

\* the try/except around them: None (some = FALSE) for a caught exception
CaughtOrReturned(v) ==
    IF v.exc = "none" THEN [exc |-> "none", some |-> TRUE, r |-> v.r]
    ELSE IF ExceptCatches(v.exc) THEN [exc |-> "none", some |-> FALSE, r |-> NoResponse]
    ELSE [exc |-> v.exc, some |-> FALSE, r |-> NoResponse]

\* try_parse_json_segment(s): the response, or None (some = FALSE); exc is the
\* exception that leaves the helper, "none" when it returns
TryParseJsonSegment(s, coerce) == CaughtOrReturned(LoadedResponse(JsonLoads(s), coerce))

\* content_str = content or ""
ContentStr(content) == IF content.absent THEN <<>> ELSE content.text

\* indices = [i for i, ch in enumerate(content_str) if ch == "{"], 0-based
RECURSIVE IndicesFrom(_, _)
IndicesFrom(s, p) ==
    IF p > Len(s) THEN <<>>
    ELSE IF s[p] = "{" THEN <<p - 1>> \o IndicesFrom(s, p + 1)
    ELSE IndicesFrom(s, p + 1)

\* mutant: the opening braces are taken from the last to the first
IndicesDescending(s) ==
    [n \in 1..Len(IndicesFrom(s, 1)) |->
        IndicesFrom(s, 1)[Len(IndicesFrom(s, 1)) + 1 - n]]

Indices(s) == IndicesFrom(s, 1)

\* mutant: the depth is not counted, the first "}" ends the candidate
RECURSIVE ScanDepthFlat(_, _, _)
ScanDepthFlat(s, j, depth) ==
    IF j >= Len(s) THEN -1
    ELSE IF s[j + 1] = "}" THEN j
    ELSE ScanDepthFlat(s, j + 1, depth)

\* the inner loop `for j in range(i, len(content_str))`, entered at 0-based j
\* with the depth counted so far: the j at which `depth == 0` is reached on a
\* "}", or -1 when the loop runs off the end of the text
RECURSIVE ScanDepth(_, _, _)
ScanDepth(s, j, depth) ==
    IF j >= Len(s) THEN -1
    ELSE IF s[j + 1] = "{" THEN ScanDepth(s, j + 1, depth + 1)
    ELSE IF s[j + 1] = "}"
         THEN IF depth - 1 = 0 THEN j ELSE ScanDepth(s, j + 1, depth - 1)
    ELSE ScanDepth(s, j + 1, depth)

\* the outer loop `for i in indices`, from the n-th index on: the first
\* candidate that parses, else some = FALSE
RECURSIVE ScanCandidates(_, _, _, _), ScanCandidateEnd(_, _, _, _, _)
RECURSIVE ScanCandidateParsed(_, _, _, _, _)
ScanCandidates(s, idx, n, coerce) ==
    IF n > Len(idx) THEN [exc |-> "none", some |-> FALSE, r |-> NoResponse, at |-> -1]
    ELSE ScanCandidateEnd(s, idx, n, coerce, ScanDepth(s, idx[n], 0))

\* j: where the depth returned to zero for the n-th index, -1 if nowhere
ScanCandidateEnd(s, idx, n, coerce, j) ==
    IF j = -1 THEN ScanCandidates(s, idx, n + 1, coerce)
    ELSE ScanCandidateParsed(s, idx, n, coerce,
                             TryParseJsonSegment(PySlice(s, idx[n], j + 1), coerce))

\* parsed: try_parse_json_segment(candidate); `if parsed: return parsed`, else
\* `break` to the next index
ScanCandidateParsed(s, idx, n, coerce, parsed) ==
    IF parsed.exc # "none" \/ parsed.some
    THEN [exc |-> parsed.exc, some |-> parsed.some, r |-> parsed.r, at |-> idx[n]]
    ELSE ScanCandidates(s, idx, n + 1, coerce)

\* the last resort: content_str[find("{") : rfind("}") + 1]
GreedySpan(s, coerce, start, end) ==
    IF start # -1 /\ end # -1 /\ end > start
    THEN TryParseJsonSegment(PySlice(s, start, end), coerce)
    ELSE [exc |-> "none", some |-> FALSE, r |-> NoResponse]

GreedyAttempt(s, coerce) == GreedySpan(s, coerce, PyFind(s, "{"), PyRFind(s, "}") + 1)

ErrorMarker == "// Error parsing AI response\n"

\* mutant: the error wrapper leaves the raw text out
FallbackDropsText(s) ==
    [code |-> <<ErrorMarker>>,
     explanations |-> <<[title |-> <<"AI Response Error">>,
                         description |-> <<"Could not parse the AI response as JSON.">>]>>]

\* the error-wrapping response
FallbackResponse(s) ==
    [code |-> <<ErrorMarker>> \o s,
     explanations |-> <<[title |-> <<"AI Response Error">>,
                         description |-> <<"Could not parse the AI response as JSON.">>]>>]

\* what _parse_ai_response did: exc is the exception raised to the caller
\* ("none": it returned r); via is the attempt that produced r, at the 0-based
\* start of the balanced candidate
Outcome(exc, via, at, r) == [exc |-> exc, via |-> via, at |-> at, r |-> r]

\* greedy: the parse of the first-to-last span; else the error wrapper
AfterGreedy(s, greedy) ==
    IF greedy.exc # "none" THEN Outcome(greedy.exc, "raise", -1, NoResponse)
    ELSE IF greedy.some THEN Outcome("none", "greedy", -1, greedy.r)
    ELSE Outcome("none", "fallback", -1, FallbackResponse(s))

\* scan: the outcome of the balanced-candidate loop; else the last resort
AfterScan(s, coerce, scan) ==
    IF scan.exc # "none" THEN Outcome(scan.exc, "raise", -1, NoResponse)
    ELSE IF scan.some THEN Outcome("none", "balanced", scan.at, scan.r)
    ELSE AfterGreedy(s, GreedyAttempt(s, coerce))

\* whole: the parse of the entire content; else the balanced candidates
AfterWhole(s, coerce, whole) ==
    IF whole.exc # "none" THEN Outcome(whole.exc, "raise", -1, NoResponse)
    ELSE IF whole.some THEN Outcome("none", "whole", -1, whole.r)
    ELSE AfterScan(s, coerce, ScanCandidates(s, Indices(s), 1, coerce))

\* _parse_ai_response(content)
ParseAiResponse(content, coerce) ==
    AfterWhole(ContentStr(content), coerce,
               TryParseJsonSegment(ContentStr(content), coerce))

\* ------------------------------------------------------------------ raw provider texts
\* {"code": "<code>", "explanations": [<entries>]}
ExplanationEntry ==
    <<"{", "q", "t", "q", ":", "q", "a", "q", ",", "q", "d", "q", ":", "q", "a", "q", "}">>

ResultObject(code, entries) ==
    <<"{", "q", "c", "q", ":", "q">> \o code
        \o <<"q", ",", "q", "e", "q", ":", "[">> \o entries \o <<"]", "}">>

BraceText == {"a", "{", "}"}

WellFormedObjects ==
    {ResultObject(code, entries) :
        code \in SeqsUpTo(BraceText, MaxCode), entries \in {<<>>, ExplanationEntry}}

\* a well-formed object inside prose and stray braces
EmbeddedTexts ==
    {pre \o obj \o suf :
        pre \in SeqsUpTo(BraceText, MaxAffix),
        obj \in WellFormedObjects,
        suf \in SeqsUpTo(BraceText, MaxAffix)}

\* two well-formed objects in one reply
TwoObjectTexts ==
    {ResultObject(<<"a">>, <<>>) \o mid \o ResultObject(<<"a", "a">>, ExplanationEntry) :
        mid \in {<<>>, <<"a">>, <<"}">>}}

\* JSON objects that lack or mistype the fields, and a duplicated key
MalformedObjects ==
    { <<"{", "q", "c", "q", ":", "q", "a", "q", "}">>,
      <<"{", "q", "e", "q", ":", "[", "]", "}">>,
      <<"{", "q", "c", "q", ":", "1", ",", "q", "e", "q", ":", "[", "]", "}">>,
      <<"{", "q", "c", "q", ":", "[", "]", ",", "q", "e", "q", ":", "[", "]", "}">>,
      <<"{", "q", "c", "q", ":", "q", "a", "q", ",", "q", "e", "q", ":", "q", "a", "q", "}">>,
      <<"{", "q", "c", "q", ":", "q", "a", "q", ",", "q", "e", "q", ":", "[", "1", "]", "}">>,
      <<"{", "q", "c", "q", ":", "q", "a", "q", ",", "q", "e", "q", ":", "[",
            "{", "q", "t", "q", ":", "q", "a", "q", "}", "]", "}">>,
      <<"{", "q", "c", "q", ":", "q", "a", "q", ",", "q", "e", "q", ":", "[",
            "{", "q", "t", "q", ":", "1", ",", "q", "d", "q", ":", "q", "a", "q", "}", "]", "}">>,
      <<"{", "q", "c", "q", ":", "1", ",", "q", "c", "q", ":", "q", "a", "q", ",",
            "q", "e", "q", ":", "[", "]", "}">>,
      <<"[", "{", "q", "c", "q", ":", "q", "a", "q", ",", "q", "e", "q", ":", "[", "]", "}", "]">> }

ShortText == {"{", "}", "[", "]", "q", "a", "1"}

RawTexts ==
    SeqsUpTo(ShortText, MaxLen) \cup EmbeddedTexts \cup TwoObjectTexts \cup MalformedObjects

\* response.text: a str, or None
Contents == {[absent |-> FALSE, text |-> t] : t \in RawTexts} \cup {[absent |-> TRUE, text |-> <<>>]}

\* ------------------------------------------------------------------ prompt builder
TaskIds == {"debug", "refactor", "debug-refactor", "performance", "comments"}

\* _get_task_description
TaskDescription(task) ==
    CASE task = "debug" -> "identify and fix bugs, syntax errors, and logical issues"
      [] task = "refactor" ->
            "improve code structure, readability, and maintainability without changing functionality"
      [] task = "debug-refactor" ->
            "first fix any bugs, then improve the code structure and readability"
      [] task = "performance" ->
            "optimize the code for better performance while maintaining correctness"
      [] task = "comments" ->
            "add comprehensive comments and documentation to explain the code"

\* _get_task_specific_instructions
TaskSpecificInstructions(task) ==
    CASE task = "debug" ->
            "Focus on finding and fixing syntax errors, logical bugs, and runtime issues."
      [] task = "refactor" ->
            "Improve variable names, function structure, and code organization."
      [] task = "debug-refactor" ->
            "First ensure the code works correctly, then make it cleaner and more maintainable."
      [] task = "performance" ->
            "Look for algorithmic improvements, reduce unnecessary operations, and optimize loops."
      [] task = "comments" ->
            "Add JSDoc/docstring comments, inline explanations, and usage examples."

\* the number of characters of the two task texts together
TaskTextLen(task) ==
    CASE task = "debug" -> 56 + 76
      [] task = "refactor" -> 87 + 66
      [] task = "debug-refactor" -> 67 + 82
      [] task = "performance" -> 70 + 85
      [] task = "comments" -> 64 + 70

LanguageLen(language) ==
    CASE language = "python" -> 6
      [] language = "go" -> 2

\* the number of characters of the template's fixed text
TemplateLen == 697

\* the three backticks that open and close the code block
Fence == "<fence>"

\* the code spliced in twice
PromptTextCodeTwice(code, task, language) ==
    << "Act as a senior software engineer with extensive experience in ", language,
       " development.\n\nYou are helping a junior developer debug and improve their code. Your task is to ",
       TaskDescription(task),
       ".\n\nIMPORTANT CONSTRAINTS: ... - Focus on best practices for ", language,
       "\n\nCODE TO ANALYZE:\n", Fence, " ", language, "\n" >>
    \o code \o code
    \o << "\n", Fence, "\n\n", TaskSpecificInstructions(task),
          "\n\nReturn your response in the following JSON format: ... Ensure the code is properly formatted and functional." >>

\* the prompt's text before and after the spliced-in parts
PromptText(code, task, language) ==
    << "Act as a senior software engineer with extensive experience in ", language,
       " development.\n\nYou are helping a junior developer debug and improve their code. Your task is to ",
       TaskDescription(task),
       ".\n\nIMPORTANT CONSTRAINTS: ... - Focus on best practices for ", language,
       "\n\nCODE TO ANALYZE:\n", Fence, " ", language, "\n" >>
    \o code
    \o << "\n", Fence, "\n\n", TaskSpecificInstructions(task),
          "\n\nReturn your response in the following JSON format: ... Ensure the code is properly formatted and functional." >>

\* len(prompt) for a debug prompt about python code, without the code
DebugPythonLen == TemplateLen + TaskTextLen("debug") + 3 * LanguageLen("python")

\* the selector's threshold
AutoThreshold == 2000

\* code tokens: "a" one ordinary character, Fence the three backticks, "B" a
\* block of ordinary characters that fills a debug prompt about python code up
\* to the threshold
BlockLen == AutoThreshold - DebugPythonLen

RECURSIVE CodeLen(_)
CodeLen(code) ==
    IF code = <<>> THEN 0
    ELSE (CASE Head(code) = "B" -> BlockLen
            [] Head(code) = Fence -> 3
            [] OTHER -> 1) + CodeLen(Tail(code))

\* build_prompt(code, task, language): the text and its len()
BuildPrompt(code, task, language) ==
    [text |-> PromptText(code, task, language),
     len |-> TemplateLen + TaskTextLen(task) + 3 * LanguageLen(language) + CodeLen(code)]

None == "<None>"

\* the whitespace tokens str.strip() removes
Whitespace == {" ", "\n"}

\* description.strip(): leading and trailing whitespace tokens removed
RECURSIVE LStrip(_)
LStrip(d) == IF d # <<>> /\ Head(d) \in Whitespace THEN LStrip(Tail(d)) ELSE d

\* trailing whitespace kept
RStripNothing(d) == d

RECURSIVE RStrip(_)
RStrip(d) ==
    IF d # <<>> /\ d[Len(d)] \in Whitespace THEN RStrip(SubSeq(d, 1, Len(d) - 1)) ELSE d

\* str.lower() of one word or phrase token
LowerWord(w) ==
    CASE w = "Quota" -> "quota"
      [] w = "Unauthorized" -> "unauthorized"
      [] w = "Gemini" -> "gemini"
      [] w = "OpenAI" -> "openai"
      [] w = "API" -> "api"
      [] w \in {"Full cleanup", "FULL CLEANUP"} -> "full cleanup"
      [] w \in {"Debug", "DEBUG"} -> "debug"
      [] w \in {"Find and fix errors", "FIND AND FIX ERRORS"} -> "find and fix errors"
      [] w = "Optimize Speed" -> "optimize speed"
      [] OTHER -> w

Lower(d) == [n \in 1..Len(d) |-> LowerWord(d[n])]

\* the synonym table of map_description_to_task
SynonymTask(key) ==
    CASE key \in {<<"find and fix errors">>, <<"find and fix error">>, <<"find and fix bugs">>} -> "debug"
      [] key \in {<<"improve structure">>, <<"improve structure and readability">>} -> "refactor"
      [] key = <<"full cleanup">> -> "debug-refactor"
      [] key \in {<<"optimize speed">>, <<"optimize performance">>} -> "performance"
      [] key \in {<<"add comments">>, <<"document code">>, <<"document the code">>} -> "comments"
      [] OTHER -> None

\* key = description.strip().lower(), looked up
TaskOfKey(key) ==
    IF Len(key) = 1 /\ key[1] \in TaskIds THEN key[1] ELSE SynonymTask(key)

\* map_description_to_task(description); a description is a sequence of " "
\* and phrase tokens
MapDescriptionToTask(description) ==
    IF description = <<>> THEN None ELSE TaskOfKey(Lower(RStrip(LStrip(description))))

\* ------------------------------------------------------------------ provider errors
\* an error is [type, msg]; msg is the sequence of the words of str(e)
NoExc == [type |-> "none", msg |-> <<>>]

\* the markers a lower-cased word holds as substrings
Fragments(w) ==
    CASE w \in {"leaked", "leaked:"} -> {"leak", "leaked", w}
      [] OTHER -> {w}

\* `marker in text`, marker a sequence of words, text already lower-cased
In(marker, text) ==
    \E n \in 1..(Len(text) - Len(marker) + 1) :
        \A m \in 1..Len(marker) : marker[m] \in Fragments(text[n + m - 1])

\* _call_gemini's except clause: the error it raises for the error e caught
GeminiClassified(e, msg) ==
    IF In(<<"quota">>, msg) \/ In(<<"rate", "limit">>, msg)
    THEN [type |-> "RuntimeError", msg |-> <<"Gemini", "quota", "exceeded:">> \o e.msg]
    ELSE IF \/ In(<<"leak">>, msg) \/ In(<<"leaked">>, msg)
            \/ In(<<"reported", "as", "leaked">>, msg)
            \/ In(<<"reported">>, msg) \/ In(<<"unauthorized">>, msg)
    THEN [type |-> "RuntimeError",
          msg |-> <<"Gemini", "API", "key", "invalid", "or", "reported", "as", "leaked:">> \o e.msg]
    ELSE e

GeminiExcept(e) == GeminiClassified(e, Lower(e.msg))

\* _call_openai's except clause
OpenAIClassified(e, msg) ==
    IF In(<<"invalid">>, msg) \/ In(<<"unauthorized">>, msg)
    THEN [type |-> "RuntimeError",
          msg |-> <<"OpenAI", "API", "key", "invalid", "or", "leaked:">> \o e.msg]
    ELSE IF In(<<"quota">>, msg) \/ In(<<"rate", "limit">>, msg)
    THEN [type |-> "RuntimeError", msg |-> <<"OpenAI", "quota", "exceeded:">> \o e.msg]
    ELSE e

OpenAIExcept(e) == OpenAIClassified(e, Lower(e.msg))

\* ------------------------------------------------------------------ dispatcher
GeminiModels == {"gemini-pro-latest", "gemini-flash-latest"}
OpenAIModels == {"gpt-4", "gpt-4o", "gpt-4o-mini"}
\* schemas.AIModel: what the endpoint accepts
AIModel == GeminiModels \cup {"auto"}

\* the threshold taken as inclusive
SelectBestModelInclusive(prompt) ==
    IF prompt.len >= AutoThreshold THEN "gemini-pro-latest" ELSE "gemini-flash-latest"

\* _select_best_model(prompt)
SelectBestModel(prompt) ==
    IF prompt.len > AutoThreshold THEN "gemini-pro-latest" ELSE "gemini-flash-latest"

\* truthiness of an Optional[str]
Truthy(k) == k # None /\ k # ""

\* a or b
Or(a, b) == IF Truthy(a) THEN a ELSE b

\* api_key.startswith("your_")
StartsWithYour(k) == k \in {"your_api_key_here", "your_gemini_api_key"}

\* `not api_key or api_key.startswith("your_") or not genai`
GeminiMockCondition(k, genai) == ~Truthy(k) \/ StartsWithYour(k) \/ ~genai

\* text.split("```"): the segments between the fences
RECURSIVE SplitFence(_, _)
SplitFence(text, seg) ==
    IF text = <<>> THEN <<seg>>
    ELSE IF Head(text) = Fence THEN <<seg>> \o SplitFence(Tail(text), <<>>)
    ELSE SplitFence(Tail(text), Append(seg, Head(text)))

MockLabel == "// Mock response: Please set a valid Gemini API key\n"

MockExplanations ==
    <<[title |-> <<"Mock Response">>,
       description |-> <<"This is a mock response because no valid Gemini API key is configured.">>]>>

\* the mock response of _call_gemini
GeminiMockResponse(prompt) ==
    [code |-> IF \E n \in 1..Len(prompt.text) : prompt.text[n] = Fence
              THEN <<MockLabel>> \o SplitFence(SplitFence(prompt.text, <<>>)[2], <<>>)[1]
              ELSE <<"// Mock response">>,
     explanations |-> MockExplanations]

\* ------------------------------------------------------------------ endpoint
\* the demonstration analysis for an anonymous user without a backend key
AnonymousMockResponse(code) ==
    [code |-> <<"// Mock analysis for anonymous user\n">> \o code,
     explanations |-> <<[title |-> <<"Mock Analysis">>,
                         description |-> <<"This is a demonstration analysis.">>]>>]

NoHttp == [status |-> 0, detail |-> <<>>, body |-> NoResponse]

\* `except RuntimeError as e`, msg = str(e).lower()
RuntimeErrorResponse(e, msg) ==
    IF In(<<"quota">>, msg) \/ In(<<"rate", "limit">>, msg)
    THEN [status |-> 429,
          detail |-> <<"AI provider quota exceeded: please try again later or rotate your key">>,
          body |-> NoResponse]
    ELSE IF \/ In(<<"leak">>, msg) \/ In(<<"leaked">>, msg) \/ In(<<"reported">>, msg)
            \/ In(<<"invalid">>, msg) \/ In(<<"unauthorized">>, msg)
    THEN [status |-> 403,
          detail |-> <<"AI provider key invalid or reported as leaked. Please rotate the key.">>,
          body |-> NoResponse]
    ELSE [status |-> 502, detail |-> <<"AI provider error:">> \o e.msg, body |-> NoResponse]

\* the except clauses of the endpoint: the HTTPException raised for e
ErrorResponse(e) ==
    CASE e.type = "ValueError" -> [status |-> 400, detail |-> e.msg, body |-> NoResponse]
      [] e.type = "RuntimeError" -> RuntimeErrorResponse(e, Lower(e.msg))
      [] OTHER -> [status |-> 500, detail |-> <<"Internal server error:">> \o e.msg,
                   body |-> NoResponse]

\* ------------------------------------------------------------------ inputs
\* longest provider error message, in words
MaxMsgWords == 2
\* longest code snippet of a request, in tokens
MaxSnippet == 1

MsgWords == {"Quota", "rate", "limit", "leaked", "reported", "Unauthorized", "invalid", "timeout"}

ExcTypes == {"RuntimeError", "ValueError", "Exception"}

NoContent == [absent |-> TRUE, text |-> <<>>]

\* what the provider does when it is called: it returns a text, or raises
ProviderReplies ==
    {[kind |-> "text", content |-> c, exc |-> NoExc] :
        c \in {[absent |-> FALSE,
                text |-> <<"a">> \o ResultObject(<<"a">>, ExplanationEntry) \o <<"a">>],
               [absent |-> FALSE, text |-> <<"a">>],
               NoContent}}

ProviderFailures ==
    {[kind |-> "raise", content |-> NoContent, exc |-> [type |-> t, msg |-> m]] :
        t \in ExcTypes, m \in SeqsUpTo(MsgWords, MaxMsgWords)}

OneReply ==
    [kind |-> "text",
     content |-> [absent |-> FALSE,
                  text |-> <<"a">> \o ResultObject(<<"a">>, ExplanationEntry) \o <<"a">>],
     exc |-> NoExc]

OneFailure ==
    [kind |-> "raise", content |-> NoContent,
     exc |-> [type |-> "Exception", msg |-> <<"timeout">>]]

\* the code of a request: short snippets with and without a fence, and
\* snippets that bring the prompt to the selector's threshold and over it
Codes ==
    SeqsUpTo({"a", Fence}, MaxSnippet)
        \cup {<<"a", Fence, "a">>, <<"B">>, <<"B", "a">>, <<"B", "B">>}

\* a str | None request field
Absent == [absent |-> TRUE, text |-> <<>>]
Text(t) == [absent |-> FALSE, text |-> t]

Request(code, task, description, model, language) ==
    [code |-> code, task |-> task, task_description |-> description,
     model |-> model, language |-> language]

\* the installed libraries: google.generativeai, openai, and whether pydantic
\* coerces numbers into str fields
Builds ==
    {[genai |-> TRUE, openai |-> TRUE, coerce |-> FALSE],
     [genai |-> TRUE, openai |-> TRUE, coerce |-> TRUE],
     [genai |-> FALSE, openai |-> TRUE, coerce |-> FALSE],
     [genai |-> TRUE, openai |-> FALSE, coerce |-> FALSE]}

StandardBuild == [genai |-> TRUE, openai |-> TRUE, coerce |-> FALSE]

Config(entry, req, userKey, settings, build, provider) ==
    [entry |-> entry, req |-> req, userKey |-> userKey, settings |-> settings,
     build |-> build, provider |-> provider]

Settings(gemini, openai) == [GEMINI_API_KEY |-> gemini, OPENAI_API_KEY |-> openai]

ModelsOf(entry) == IF entry = "endpoint" THEN AIModel ELSE AIModel \cup OpenAIModels \cup {"claude-3"}

\* ------------------------------------------------------------------ state
VARIABLES
    entry,      \* "endpoint": POST /analyze; "direct": AIService.analyze_code called
                \* by a script; "parser": _parse_ai_response called alone
    req,        \* the AnalyzeRequest
    userKey,    \* get_user_api_key(request), or the direct call's api_key
    settings,   \* app.config.settings
    build,      \* the installed libraries
    provider,   \* what the provider does when it is called
    pc,         \* where the request is
    taskId,     \* task_id of the endpoint
    prompt,     \* the built prompt: [text, len]
    apiKey,     \* the api_key the dispatcher is called with
    model,      \* the dispatcher's model after resolution
    key,        \* the credential the dispatcher resolved
    calls,      \* the outbound provider calls made, in order
    exc,        \* the exception in flight
    result,     \* the AnalyzeResponse the dispatcher returned
    response,   \* the endpoint's answer: [status, detail, body]
    content,    \* the raw provider text handed to _parse_ai_response
    coerce,     \* whether the installed pydantic coerces numbers into str fields
    nstage,     \* "idle"; "ready" before _parse_ai_response runs, "done" after
    parsed,     \* what _parse_ai_response did: [exc, via, at, r]
    genaiKey,   \* the api key the shared genai module is configured with
    tpc,        \* per executor thread: where it is in _sync_call_gemini
    tkey,       \* per executor thread: the api_key argument of its call
    torig,      \* per executor thread: its local original_key
    tused       \* per executor thread: the key its generate_content ran with

vars == <<entry, req, userKey, settings, build, provider, pc, taskId, prompt, apiKey,
          model, key, calls, exc, result, response, content, coerce, nstage, parsed,
          genaiKey, tpc, tkey, torig, tused>>

inputs == <<entry, req, userKey, settings, build, provider, coerce>>

\* the state of the executor threads
workers == <<genaiKey, tpc, tkey, torig, tused>>

\* the requests whose Gemini calls run at the same time
NumRequests == 2

Threads == 1..NumRequests

\* no call is running in the executor
NoWorkers ==
    /\ genaiKey = None
    /\ tpc = [t \in Threads |-> "idle"] /\ tkey = [t \in Threads |-> None]
    /\ torig = [t \in Threads |-> None] /\ tused = [t \in Threads |-> None]

NotParsed == [exc |-> "none", via |-> "pending", at |-> -1, r |-> NoResponse]

NoPrompt == [text |-> <<>>, len |-> 0]

\* nothing has run yet
Fresh ==
    /\ taskId = None /\ prompt = NoPrompt /\ apiKey = None /\ model = None /\ key = None
    /\ calls = <<>> /\ exc = NoExc /\ result = NoResponse /\ response = NoHttp
    /\ parsed = NotParsed
    /\ NoWorkers

\* the inputs of one run
Given(cfg) ==
    /\ entry = cfg.entry /\ req = cfg.req /\ userKey = cfg.userKey
    /\ settings = cfg.settings /\ build = cfg.build /\ provider = cfg.provider
    /\ coerce = cfg.build.coerce

\* requests to the endpoint that name the task by id, by description, or not
TaskInit ==
    \E task \in {"debug", "comments", None},
       description \in {Absent, Text(<<>>), Text(<<" ">>), Text(<<" ", "Full cleanup", " ">>),
                        Text(<<"Debug">>), Text(<<"unknown task">>)},
       language \in {"python", "go"} :
        Given(Config("endpoint", Request(<<"a">>, task, description, "auto", language),
                     "sk-user", Settings("sk-gemini", "sk-openai"), StandardBuild, OneReply))

\* requests and direct dispatcher calls over the models, the credentials and
\* the installed libraries
DispatchInit ==
    \E e \in {"endpoint", "direct"} :
        \E code \in Codes, m \in ModelsOf(e),
           k \in {None, "", "your_api_key_here", "sk-user"},
           gemini \in {"", "your_gemini_api_key", "sk-gemini"}, openai \in {"", "sk-openai"},
           b \in Builds, p \in {OneReply, OneFailure} :
            Given(Config(e, Request(code, "debug", Absent, m, "python"),
                         k, Settings(gemini, openai), b, p))

\* calls that reach the provider, over what the provider answers
FailureInit ==
    \E em \in {<<"endpoint", "gemini-flash-latest">>, <<"direct", "gemini-flash-latest">>,
               <<"direct", "gpt-4o">>},
       p \in ProviderReplies \cup ProviderFailures :
        Given(Config(em[1], Request(<<"a">>, "debug", Absent, em[2], "python"),
                     "sk-user", Settings("sk-gemini", "sk-openai"), StandardBuild, p))

\* a request arrives at the endpoint, or a script calls the dispatcher
Init ==
    /\ TaskInit \/ DispatchInit \/ FailureInit
    /\ pc = "start"
    /\ content = NoContent /\ nstage = "idle"
    /\ Fresh

\* _parse_ai_response is called with a raw text
NormalizerInit ==
    /\ entry = "parser"
    /\ req = Request(<<>>, None, Absent, None, None)
    /\ userKey = None /\ settings = Settings("", "")
    /\ \E b \in {bb \in Builds : bb.genai /\ bb.openai} : build = b /\ coerce = b.coerce
    /\ provider = OneReply
    /\ pc = "parse"
    /\ content \in Contents /\ nstage = "ready"
    /\ Fresh

\* ------------------------------------------------------------------ endpoint: analyze_code
\* the description consulted before the task
ResolvedTaskDescriptionFirst(r) ==
    IF ~r.task_description.absent /\ r.task_description.text # <<>>
       /\ MapDescriptionToTask(r.task_description.text) # None
    THEN MapDescriptionToTask(r.task_description.text)
    ELSE r.task

\* task_id from req.task, else from req.task_description
ResolvedTask(r) ==
    IF r.task # None THEN r.task
    ELSE IF ~r.task_description.absent /\ r.task_description.text # <<>>
         THEN MapDescriptionToTask(r.task_description.text)
    ELSE None

\* lines 49-63: the task resolves
ResolveTask ==
    /\ pc = "start" /\ entry = "endpoint"
    /\ ResolvedTask(req) # None
    /\ taskId' = ResolvedTask(req)
    /\ pc' = "build"
    /\ UNCHANGED <<inputs, workers, prompt, apiKey, model, key, calls, exc, result, response,
                   content, nstage, parsed>>

\* lines 55-56: raise ValueError("Invalid or missing task. ...")
RejectTask ==
    /\ pc = "start" /\ entry = "endpoint"
    /\ ResolvedTask(req) = None
    /\ exc' = [type |-> "ValueError", msg |-> <<"Invalid or missing task.">>]
    /\ pc' = "raised"
    /\ UNCHANGED <<inputs, workers, taskId, prompt, apiKey, model, key, calls, result, response,
                   content, nstage, parsed>>

\* the script builds the prompt for its task itself
DirectStart ==
    /\ pc = "start" /\ entry = "direct"
    /\ taskId' = req.task
    /\ pc' = "build"
    /\ UNCHANGED <<inputs, workers, prompt, apiKey, model, key, calls, exc, result, response,
                   content, nstage, parsed>>

\* PromptBuilder.build_prompt(code, task, language)
BuildThePrompt ==
    /\ pc = "build"
    /\ prompt' = BuildPrompt(req.code, taskId, req.language)
    /\ pc' = IF entry = "endpoint" THEN "credential" ELSE "dispatch"
    /\ apiKey' = IF entry = "endpoint" THEN apiKey ELSE userKey
    /\ UNCHANGED <<inputs, workers, taskId, model, key, calls, exc, result, response,
                   content, nstage, parsed>>

\* lines 85-86: an authenticated user's key
AuthenticatedKey ==
    /\ pc = "credential" /\ userKey # None
    /\ apiKey' = userKey
    /\ pc' = "dispatch"
    /\ UNCHANGED <<inputs, workers, taskId, prompt, model, key, calls, exc, result, response,
                   content, nstage, parsed>>

\* lines 68-74: an anonymous user and a backend key
BackendKey ==
    /\ pc = "credential" /\ userKey = None
    /\ Truthy(Or(settings.GEMINI_API_KEY, settings.OPENAI_API_KEY))
    /\ apiKey' = Or(settings.GEMINI_API_KEY, settings.OPENAI_API_KEY)
    /\ pc' = "dispatch"
    /\ UNCHANGED <<inputs, workers, taskId, prompt, model, key, calls, exc, result, response,
                   content, nstage, parsed>>

\* lines 76-83: an anonymous user and no backend key
AnonymousMock ==
    /\ pc = "credential" /\ userKey = None
    /\ ~Truthy(Or(settings.GEMINI_API_KEY, settings.OPENAI_API_KEY))
    /\ response' = [status |-> 200, detail |-> <<>>, body |-> AnonymousMockResponse(req.code)]
    /\ pc' = "done"
    /\ UNCHANGED <<inputs, workers, taskId, prompt, apiKey, model, key, calls, exc, result,
                   content, nstage, parsed>>

\* ------------------------------------------------------------------ AIService.analyze_code
\* lines 35-36
ResolveModel ==
    /\ pc = "dispatch"
    /\ model' = IF req.model = "auto" THEN SelectBestModel(prompt) ELSE req.model
    /\ pc' = "route"
    /\ UNCHANGED <<inputs, workers, taskId, prompt, apiKey, key, calls, exc, result, response,
                   content, nstage, parsed>>

\* lines 38-40
RouteGemini ==
    /\ pc = "route" /\ model \in GeminiModels
    /\ key' = Or(apiKey, settings.GEMINI_API_KEY)
    /\ pc' = "call_gemini"
    /\ UNCHANGED <<inputs, workers, taskId, prompt, apiKey, model, calls, exc, result, response,
                   content, nstage, parsed>>

\* the key passed on without the `if not key` test
OpenAIKeyUnchecked(k) == TRUE

\* `if not key: raise ValueError(...)`: whether analyze_code goes on to
\* _call_openai with the key
OpenAIKeyUsable(k) == Truthy(k)

\* lines 41-45
RouteOpenAI ==
    /\ pc = "route" /\ model \in OpenAIModels
    /\ key' = Or(apiKey, settings.OPENAI_API_KEY)
    /\ IF OpenAIKeyUsable(key')
       THEN pc' = "call_openai" /\ exc' = exc
       ELSE /\ pc' = "raised"
            /\ exc' = [type |-> "ValueError", msg |-> <<"OpenAI API key not configured">>]
    /\ UNCHANGED <<inputs, workers, taskId, prompt, apiKey, model, calls, result, response,
                   content, nstage, parsed>>

\* lines 46-47
RouteUnsupported ==
    /\ pc = "route" /\ model \notin GeminiModels \cup OpenAIModels
    /\ exc' = [type |-> "ValueError", msg |-> <<"Unsupported model:", model>>]
    /\ pc' = "raised"
    /\ UNCHANGED <<inputs, workers, taskId, prompt, apiKey, model, key, calls, result, response,
                   content, nstage, parsed>>

\* _call_gemini lines 56-64: the mock response for development
GeminiMock ==
    /\ pc = "call_gemini"
    /\ GeminiMockCondition(key, build.genai)
    /\ result' = GeminiMockResponse(prompt)
    /\ pc' = "returned"
    /\ UNCHANGED <<inputs, workers, taskId, prompt, apiKey, model, key, calls, exc, response,
                   content, nstage, parsed>>

\* the call made again after the first
CallProviderTwice(family, except) ==
    /\ calls' = calls \o << [provider |-> family, model |-> model, key |-> key],
                            [provider |-> family, model |-> model, key |-> key] >>
    /\ IF provider.kind = "text"
       THEN /\ content' = provider.content /\ nstage' = "ready"
            /\ pc' = "parse" /\ exc' = exc
       ELSE /\ exc' = provider.exc
            /\ pc' = except
            /\ UNCHANGED <<content, nstage>>
    /\ UNCHANGED <<inputs, workers, taskId, prompt, apiKey, model, key, result, response, parsed>>

\* the one outbound call, and what comes back: a text to parse or an error
CallProvider(family, except) ==
    /\ calls' = Append(calls, [provider |-> family, model |-> model, key |-> key])
    /\ IF provider.kind = "text"
       THEN /\ content' = provider.content /\ nstage' = "ready"
            /\ pc' = "parse" /\ exc' = exc
       ELSE /\ exc' = provider.exc
            /\ pc' = except
            /\ UNCHANGED <<content, nstage>>
    /\ UNCHANGED <<inputs, workers, taskId, prompt, apiKey, model, key, result, response, parsed>>

\* _call_gemini lines 66-70, _sync_call_gemini lines 85-101
GeminiCall ==
    /\ pc = "call_gemini"
    /\ ~GeminiMockCondition(key, build.genai)
    /\ CallProvider("gemini", "gemini_except")

\* _call_openai lines 110-111
OpenAINotInstalled ==
    /\ pc = "call_openai" /\ ~build.openai
    /\ exc' = [type |-> "ValueError", msg |-> <<"OpenAI library not installed">>]
    /\ pc' = "raised"
    /\ UNCHANGED <<inputs, workers, taskId, prompt, apiKey, model, key, calls, result, response,
                   content, nstage, parsed>>

\* _call_openai lines 113-121
OpenAICall ==
    /\ pc = "call_openai" /\ build.openai
    /\ CallProvider("openai", "openai_except")

\* _parse_ai_response(content), lines 103 and 122, or called alone
Normalize ==
    /\ pc = "parse" /\ nstage = "ready"
    /\ parsed' = ParseAiResponse(content, coerce)
    /\ nstage' = "done"
    /\ IF parsed'.exc = "none"
       THEN result' = parsed'.r /\ pc' = "returned" /\ exc' = exc
       ELSE /\ result' = result
            /\ exc' = [type |-> parsed'.exc, msg |-> <<>>]
            /\ pc' = IF entry = "parser" THEN "raised"
                     ELSE IF model \in GeminiModels THEN "gemini_except" ELSE "openai_except"
    /\ UNCHANGED <<inputs, workers, taskId, prompt, apiKey, model, key, calls, response, content>>

\* _call_gemini lines 71-83
GeminiRaise ==
    /\ pc = "gemini_except"
    /\ exc' = GeminiExcept(exc)
    /\ pc' = "raised"
    /\ UNCHANGED <<inputs, workers, taskId, prompt, apiKey, model, key, calls, result, response,
                   content, nstage, parsed>>

\* _call_openai lines 123-129
OpenAIRaise ==
    /\ pc = "openai_except"
    /\ exc' = OpenAIExcept(exc)
    /\ pc' = "raised"
    /\ UNCHANGED <<inputs, workers, taskId, prompt, apiKey, model, key, calls, result, response,
                   content, nstage, parsed>>

\* ------------------------------------------------------------------ endpoint: the answer
\* lines 74 and 88: return response
ReturnResponse ==
    /\ pc = "returned" /\ entry = "endpoint"
    /\ response' = [status |-> 200, detail |-> <<>>, body |-> result]
    /\ pc' = "done"
    /\ UNCHANGED <<inputs, workers, taskId, prompt, apiKey, model, key, calls, exc, result,
                   content, nstage, parsed>>

\* lines 90-104: the except clauses
HandleError ==
    /\ pc = "raised" /\ entry = "endpoint"
    /\ response' = ErrorResponse(exc)
    /\ pc' = "done"
    /\ UNCHANGED <<inputs, workers, taskId, prompt, apiKey, model, key, calls, exc, result,
                   content, nstage, parsed>>

Next ==
    \/ ResolveTask \/ RejectTask \/ DirectStart \/ BuildThePrompt
    \/ AuthenticatedKey \/ BackendKey \/ AnonymousMock
    \/ ResolveModel \/ RouteGemini \/ RouteOpenAI \/ RouteUnsupported
    \/ GeminiMock \/ GeminiCall \/ OpenAINotInstalled \/ OpenAICall
    \/ Normalize \/ GeminiRaise \/ OpenAIRaise
    \/ ReturnResponse \/ HandleError

Spec == Init /\ [][Next]_vars

NormalizerNext == Normalize

SpecNormalizer == NormalizerInit /\ [][NormalizerNext]_vars

\* ------------------------------------------------------------------ map_description_to_task alone
\* longest description, in tokens
MaxDesc == 3

\* a description is a sequence of whitespace tokens and of words and phrases in
\* some letter case
DescTokens ==
    Whitespace \cup
    {"debug", "Debug", "DEBUG", "refactor", "full cleanup", "Full cleanup", "FULL CLEANUP",
     "find and fix errors", "Find and fix errors", "Optimize Speed", "document code",
     "unknown task"}

Descriptions == SeqsUpTo(DescTokens, MaxDesc)

\* map_description_to_task is called with a description
MapperInit ==
    /\ entry = "mapper"
    /\ \E d \in Descriptions : req = Request(<<>>, None, Text(d), None, None)
    /\ userKey = None /\ settings = Settings("", "")
    /\ build = StandardBuild /\ coerce = FALSE
    /\ provider = OneReply
    /\ pc = "map"
    /\ content = NoContent /\ nstage = "idle"
    /\ Fresh

\* PromptBuilder.map_description_to_task(description)
MapDescription ==
    /\ pc = "map"
    /\ taskId' = MapDescriptionToTask(req.task_description.text)
    /\ pc' = "mapped"
    /\ UNCHANGED <<inputs, workers, prompt, apiKey, model, key, calls, exc, result, response,
                   content, nstage, parsed>>

MapperNext == MapDescription

SpecMapper == MapperInit /\ [][MapperNext]_vars

\* ------------------------------------------------------------------ build_prompt alone
\* longest code blob, in tokens
MaxBlob == 2

\* code blobs: "a" a character of text the template does not hold, fences and
\* newlines, which it does, and the empty blob
Blobs == SeqsUpTo({"a", Fence, "\n"}, MaxBlob)

\* build_prompt is called with a code blob, a task id and a language
BuilderInit ==
    /\ entry = "builder"
    /\ \E code \in Blobs, task \in TaskIds, language \in {"python", "go"} :
          req = Request(code, task, Absent, None, language)
    /\ userKey = None /\ settings = Settings("", "")
    /\ build = StandardBuild /\ coerce = FALSE
    /\ provider = OneReply
    /\ pc = "compose"
    /\ content = NoContent /\ nstage = "idle"
    /\ Fresh

\* PromptBuilder.build_prompt(code, task, language)
ComposePrompt ==
    /\ pc = "compose"
    /\ prompt' = BuildPrompt(req.code, req.task, req.language)
    /\ pc' = "composed"
    /\ UNCHANGED <<inputs, workers, taskId, apiKey, model, key, calls, exc, result, response,
                   content, nstage, parsed>>

BuilderNext == ComposePrompt

SpecBuilder == BuilderInit /\ [][BuilderNext]_vars

\* ------------------------------------------------------------------ concurrent Gemini calls
\* the keys of the users whose requests run at the same time
UserKeys == {"sk-user-a", "sk-user-b"}

\* everything of the single request is at rest
PipelineIdle ==
    /\ entry = "executor"
    /\ req = Request(<<>>, None, Absent, None, None)
    /\ userKey = None
    /\ build = StandardBuild /\ coerce = FALSE
    /\ provider = OneReply
    /\ pc = "executor"
    /\ content = NoContent /\ nstage = "idle"
    /\ taskId = None /\ prompt = NoPrompt /\ apiKey = None /\ model = None /\ key = None
    /\ calls = <<>> /\ exc = NoExc /\ result = NoResponse /\ response = NoHttp
    /\ parsed = NotParsed

\* AIService() has configured genai with the backend key, and each request's
\* _sync_call_gemini has been handed to the executor with its own key
ConcurrentInit ==
    /\ PipelineIdle
    /\ settings \in {Settings("", ""), Settings("sk-gemini", "")}
    /\ genaiKey = settings.GEMINI_API_KEY
    /\ tkey \in [Threads -> UserKeys]
    /\ tpc = [t \in Threads |-> "read_original"]
    /\ torig = [t \in Threads |-> None]
    /\ tused = [t \in Threads |-> None]

single == <<entry, req, userKey, settings, build, provider, coerce, pc, taskId, prompt,
            apiKey, model, key, calls, exc, result, response, content, nstage, parsed>>

\* line 87: original_key = getattr(genai, '_api_key', None); whether the
\* installed genai module has that attribute is the library's matter
ReadOriginalKey(t) ==
    /\ tpc[t] = "read_original"
    /\ \E k \in {None, genaiKey} : torig' = [torig EXCEPT ![t] = k]
    /\ tpc' = [tpc EXCEPT ![t] = "configure"]
    /\ UNCHANGED <<single, genaiKey, tkey, tused>>

\* line 88: genai.configure(api_key=api_key)
ConfigureKey(t) ==
    /\ tpc[t] = "configure"
    /\ genaiKey' = tkey[t]
    /\ tpc' = [tpc EXCEPT ![t] = "generate"]
    /\ UNCHANGED <<single, tkey, torig, tused>>

\* lines 90-103: the model instance is made and generate_content runs with the
\* key genai is configured with
GenerateContent(t) ==
    /\ tpc[t] = "generate"
    /\ tused' = [tused EXCEPT ![t] = genaiKey]
    /\ tpc' = [tpc EXCEPT ![t] = "restore"]
    /\ UNCHANGED <<single, genaiKey, tkey, torig>>

\* lines 104-107: finally, restore the original key if there was one
RestoreKey(t) ==
    /\ tpc[t] = "restore"
    /\ genaiKey' = IF Truthy(torig[t]) THEN torig[t] ELSE genaiKey
    /\ tpc' = [tpc EXCEPT ![t] = "returned"]
    /\ UNCHANGED <<single, tkey, torig, tused>>

ConcurrentNext ==
    \E t \in Threads :
        \/ ReadOriginalKey(t) \/ ConfigureKey(t) \/ GenerateContent(t) \/ RestoreKey(t)

SpecConcurrent == ConcurrentInit /\ [][ConcurrentNext]_vars

\* ------------------------------------------------------------------ normalizer properties
ResultText == Tokens \cup {ErrorMarker, "AI Response Error", "Could not parse the AI response as JSON."}

\* the shape of an AnalysisResult
IsAnalysisResult(r) ==
    /\ r.code \in Seq(ResultText)
    /\ DOMAIN r.explanations = 1..Len(r.explanations)
    /\ \A n \in 1..Len(r.explanations) :
          /\ r.explanations[n].title \in Seq(ResultText)
          /\ r.explanations[n].description \in Seq(ResultText)

Parses(seg) == TryParseJsonSegment(seg, coerce).some
ValueOf(seg) == TryParseJsonSegment(seg, coerce).r

Opens(s, a, b) == Cardinality({p \in a..b : s[p] = "{"})
Closes(s, a, b) == Cardinality({p \in a..b : s[p] = "}"})

\* s[a..b] runs from an opening brace to the first closing brace at which as
\* many braces have closed as have opened
ClosesFirstAt(s, a, b) ==
    /\ s[a] = "{" /\ s[b] = "}"
    /\ Opens(s, a, b) = Closes(s, a, b)
    /\ \A m \in a..(b - 1) : Opens(s, a, m) > Closes(s, a, m)

\* the braces of s[a..b] are balanced: as many close as open, and no prefix
\* closes more than it has opened
BracesBalanced(s, a, b) ==
    /\ Opens(s, a, b) = Closes(s, a, b)
    /\ \A m \in a..b : Opens(s, a, m) >= Closes(s, a, m)

\* the attempts in their order: rank 0 the entire text, rank a the candidate
\* opening at position a, rank Len(s) + 1 the span from the first opening
\* brace to the last closing brace
Attempts(s) ==
    {[rank |-> 0, seg |-> s]}
    \cup {[rank |-> ab[1], seg |-> SubSeq(s, ab[1], ab[2])] :
            ab \in {xy \in (1..Len(s)) \X (1..Len(s)) : ClosesFirstAt(s, xy[1], xy[2])}}
    \cup {[rank |-> Len(s) + 1, seg |-> SubSeq(s, ab[1], ab[2])] :
            ab \in {xy \in (1..Len(s)) \X (1..Len(s)) :
                      /\ xy[1] < xy[2]
                      /\ s[xy[1]] = "{" /\ \A m \in 1..(xy[1] - 1) : s[m] # "{"
                      /\ s[xy[2]] = "}" /\ \A m \in (xy[2] + 1)..Len(s) : s[m] # "}"}}

ParsingAttempts(s) == {a \in Attempts(s) : Parses(a.seg)}

\* the well-formed AnalysisResult objects s contains, as <<first, last>>
ObjectsIn(s) ==
    {ab \in (1..Len(s)) \X (1..Len(s)) :
        /\ ab[1] < ab[2] /\ s[ab[1]] = "{" /\ s[ab[2]] = "}"
        /\ Parses(SubSeq(s, ab[1], ab[2]))}

\* C1: for every raw text, absent text included, _parse_ai_response returns a
\* valid AnalysisResult and raises nothing to its caller
C1_NormalizerTotal ==
    nstage = "done" => parsed.exc = "none" /\ IsAnalysisResult(parsed.r)

\* C1: reached with a text that is valid JSON but no object, and with a JSON
\* object that lacks or mistypes the fields
C1_Witness ==
    /\ nstage = "done" /\ parsed.exc = "none" /\ parsed.via = "fallback"
    /\ LET j == JsonLoads(ContentStr(content))
       IN  j.exc = "none" /\ j.v.k = "arr" /\ Len(j.v.items) > 0

\* C2: the result is that of the first attempt, in the order entire text,
\* balanced candidates by increasing start, first-to-last span, that parses as
\* an AnalysisResult; the fallback is returned only when none parses
C2_AttemptOrder ==
    nstage = "done" =>
        LET ok == ParsingAttempts(ContentStr(content))
        IN  IF ok = {} THEN parsed.via = "fallback"
            ELSE /\ parsed.via # "fallback"
                 /\ \E a \in ok : /\ \A b \in ok : a.rank <= b.rank
                                  /\ parsed.r = ValueOf(a.seg)

\* C2: reached where a later attempt parses too, to a different result
C2_Witness ==
    /\ nstage = "done"
    /\ \E a, b \in ParsingAttempts(ContentStr(content)) :
          /\ a.rank < b.rank /\ a.rank > 0
          /\ ValueOf(a.seg) # ValueOf(b.seg)
          /\ parsed.r = ValueOf(a.seg)

\* C3 as stated: whenever the text contains a well-formed AnalysisResult
\* object whose braces, those inside its strings included, are balanced, the
\* result is such an object's code and explanations, not the fallback
C3_BalancedObjectRecovered ==
    nstage = "done" =>
        LET s == ContentStr(content)
            objs == {ab \in ObjectsIn(s) : BracesBalanced(s, ab[1], ab[2])}
        IN  objs # {} =>
                /\ parsed.via # "fallback"
                /\ \E ab \in objs : parsed.r = ValueOf(SubSeq(s, ab[1], ab[2]))

\* C3 amended: whenever the text contains a well-formed AnalysisResult object
\* whose brace depth, counted from its opening brace, first returns to zero at
\* its closing brace, the result is not the fallback: it is the entire text's
\* parse when the entire text parses, else the leftmost such object's
C3_NestedObjectRecovered ==
    nstage = "done" =>
        LET s == ContentStr(content)
            objs == {ab \in ObjectsIn(s) : ClosesFirstAt(s, ab[1], ab[2])}
        IN  objs # {} =>
                /\ parsed.via # "fallback"
                /\ Parses(s) => parsed.r = ValueOf(s)
                /\ ~Parses(s) =>
                      \E ab \in objs : /\ \A cd \in objs : ab[1] <= cd[1]
                                       /\ parsed.r = ValueOf(SubSeq(s, ab[1], ab[2]))

\* C3: reached with an object inside prose, followed by a stray brace, whose
\* code string holds braces
C3_Witness ==
    /\ nstage = "done"
    /\ LET s == ContentStr(content)
       IN  \E ab \in ObjectsIn(s) :
              /\ ClosesFirstAt(s, ab[1], ab[2])
              /\ ab[1] > 1 /\ ab[2] < Len(s) /\ s[Len(s)] \in {"{", "}"}
              /\ \E n \in 1..Len(parsed.r.code) : parsed.r.code[n] = "{"
              /\ parsed.r = ValueOf(SubSeq(s, ab[1], ab[2]))

\* C4: when no attempt parses, the result's code is the error-marker line
\* followed by the raw text unchanged, and its explanations are exactly one
\* entry saying the reply could not be parsed
C4_FallbackShape ==
    (nstage = "done" /\ ParsingAttempts(ContentStr(content)) = {}) =>
        /\ parsed.r.code = <<ErrorMarker>> \o (IF content.absent THEN <<>> ELSE content.text)
        /\ Len(parsed.r.explanations) = 1
        /\ parsed.r.explanations[1].title = <<"AI Response Error">>
        /\ parsed.r.explanations[1].description = <<"Could not parse the AI response as JSON.">>

\* C4: reached with a text that holds braces and parses nowhere
C4_Witness ==
    /\ nstage = "done" /\ parsed.via = "fallback"
    /\ ~content.absent /\ Len(content.text) >= 2
    /\ \E n \in 1..Len(content.text) : content.text[n] = "{"

\* ------------------------------------------------------------------ dispatcher properties
\* the dispatcher has been called and has returned or raised
Dispatched == model # None /\ pc \in {"returned", "raised", "done"}

\* the request, or the script's call, is over
Finished == pc = "done" \/ (entry = "direct" /\ pc \in {"returned", "raised"})

\* the provider was called and answered with an error
ProviderRaised == calls # <<>> /\ provider.kind = "raise"

Words(msg) == {msg[n] : n \in 1..Len(msg)}

\* the words of the provider's error message, in lower case
RaisedWords == Words(Lower(provider.exc.msg))

QuotaMarked ==
    \/ "quota" \in RaisedWords
    \/ \E n \in 1..(Len(provider.exc.msg) - 1) :
          Lower(provider.exc.msg)[n] = "rate" /\ Lower(provider.exc.msg)[n + 1] = "limit"

CredentialMarked == RaisedWords \cap {"invalid", "leaked", "unauthorized", "reported"} # {}

\* part occurs in text as a contiguous run
Contains(text, part) ==
    \E n \in 0..(Len(text) - Len(part)) : SubSeq(text, n + 1, n + Len(part)) = part

\* the taxonomy kind a finished failure is reported as: by the endpoint's
\* status, and for a script by the type and the markers of the error the
\* dispatcher raised
ReportedKind ==
    IF entry = "endpoint"
    THEN CASE response.status = 429 -> "quota_exceeded"
           [] response.status = 403 -> "credential_rejected"
           [] response.status = 502 -> "provider_error"
           [] response.status = 400 -> "validation_error"
           [] response.status = 500 -> "internal_error"
           [] OTHER -> "none"
    ELSE IF pc # "raised" THEN "none"
    ELSE IF exc.type = "ValueError" THEN "validation_error"
    ELSE IF exc.type # "RuntimeError" THEN "internal_error"
    ELSE IF "quota" \in Words(Lower(exc.msg)) \/ Contains(Lower(exc.msg), <<"rate", "limit">>)
         THEN "quota_exceeded"
    ELSE IF Words(Lower(exc.msg)) \cap {"invalid", "leaked", "leaked:", "unauthorized", "reported"} # {}
         THEN "credential_rejected"
    ELSE "provider_error"

\* C5: under the automatic selector the resolved model is gemini-pro-latest
\* exactly when the prompt is longer than 2000 characters and
\* gemini-flash-latest otherwise, 2000 included; an explicit model id is the
\* resolved model.
C5_AutoSelection ==
    model # None =>
        IF req.model = "auto"
        THEN model = (IF prompt.len > 2000 THEN "gemini-pro-latest" ELSE "gemini-flash-latest")
        ELSE model = req.model

\* C5 witness: a prompt of exactly 2000 characters resolved to the faster variant.
C5_Witness ==
    /\ req.model = "auto" /\ prompt.len = 2000 /\ model = "gemini-flash-latest"
    /\ Dispatched

\* C6 as stated: in every provider family a provider error with a quota or
\* rate-limit marker in its message (and no credential marker) ends as
\* quota_exceeded, and one with an invalid, leaked, unauthorized or reported
\* marker (and no quota marker) ends as credential_rejected.
C6_MarkersClassified ==
    (Finished /\ ProviderRaised) =>
        /\ (QuotaMarked /\ ~CredentialMarked) => ReportedKind = "quota_exceeded"
        /\ (CredentialMarked /\ ~QuotaMarked) => ReportedKind = "credential_rejected"

\* C7 as stated: a provider failure whose message has none of the markers ends
\* as provider_error with the provider's message kept, whatever the type of the
\* error raised.
C7_UnmarkedIsProviderError ==
    (Finished /\ ProviderRaised /\ ~QuotaMarked /\ ~CredentialMarked) =>
        /\ ReportedKind = "provider_error"
        /\ IF entry = "endpoint"
           THEN Contains(response.detail, provider.exc.msg)
           ELSE exc.msg = provider.exc.msg

\* what the endpoint answers when the Gemini provider raises e
Surfaced(e) == ErrorResponse(GeminiExcept(e))

\* C8 as stated: when a request ends in a non-validation failure, the message
\* returned holds no word of the provider's error text, and any other provider
\* error text that ends in the same status gets the same message.
C8_GenericMessage ==
    (entry = "endpoint" /\ pc = "done" /\ ProviderRaised /\ response.status \notin {200, 400}) =>
        /\ Words(response.detail) \cap Words(provider.exc.msg) = {}
        /\ \A f \in ProviderFailures :
              Surfaced(f.exc).status = response.status
                  => Surfaced(f.exc).detail = response.detail

\* no credential for the resolved model's provider: none passed by the caller
\* and none in the settings
NoCredential ==
    /\ ~Truthy(apiKey)
    /\ model \in GeminiModels => ~Truthy(settings.GEMINI_API_KEY)
    /\ model \in OpenAIModels => ~Truthy(settings.OPENAI_API_KEY)

\* the error raised is none of the validation errors, none of the errors a
\* provider reports (its message holds none of their words) and none of those
\* as the dispatcher wraps them
DistinctError ==
    /\ exc # [type |-> "ValueError", msg |-> <<"Invalid or missing task.">>]
    /\ ~(exc.type = "ValueError" /\ exc.msg # <<>> /\ exc.msg[1] = "Unsupported model:")
    /\ exc.msg # <<>> /\ Words(exc.msg) \cap MsgWords = {}
    /\ exc.msg[1] \notin {"Gemini", "OpenAI"}

C10_MockEmbedsCode ==
    (Dispatched /\ model \in GeminiModels /\ (~Truthy(key) \/ StartsWithYour(key))) =>
        /\ calls = <<>>
        /\ exc = NoExc
        /\ Len(result.code) >= 1
        /\ result.code[1] = "// Mock response: Please set a valid Gemini API key\n"
        /\ Contains(Tail(result.code), req.code)
        /\ result.explanations # <<>>
        /\ \A n \in 1..Len(result.explanations) :
              result.explanations[n].title = <<"Mock Response">>

\* the invocation ends before any provider is called: an unsupported model,
\* the Gemini development mock, a missing OpenAI key or library
EndsWithoutCall ==
    \/ model \notin GeminiModels \cup OpenAIModels
    \/ model \in GeminiModels /\ (~Truthy(key) \/ StartsWithYour(key) \/ ~build.genai)
    \/ model \in OpenAIModels /\ (~Truthy(key) \/ ~build.openai)

\* C11 as stated: every invocation of analyze_code that has completed has made
\* exactly one outbound call, to one provider.
C11_ExactlyOneCall ==
    Dispatched => Len(calls) = 1

\* C11 amended: an invocation never makes more than one outbound call, so never
\* calls two providers and never repeats a call after a failure; a completed
\* invocation has made its one call, to the provider of the resolved model,
\* unless it ended before the call (mock, missing key or library, unsupported
\* model), and then it has made none.
C11_AtMostOneCall ==
    /\ Len(calls) <= 1
    /\ Dispatched =>
          IF EndsWithoutCall THEN calls = <<>>
          ELSE /\ Len(calls) = 1
               /\ calls[1].model = model
               /\ calls[1].provider = (IF model \in GeminiModels THEN "gemini" ELSE "openai")

\* C11 witness: the provider's call failed, the invocation has raised, and the
\* call was made once.
C11_Witness ==
    /\ Dispatched /\ pc = "raised" /\ ProviderRaised
    /\ Len(calls) = 1 /\ calls[1].provider = "openai"

\* ------------------------------------------------------------------ prompt builder properties
IsSpace(t) == t \in {" ", "\n"}

\* d without its leading and trailing whitespace: from its first token that is
\* not whitespace to its last
Trimmed(d) ==
    LET solid == {n \in 1..Len(d) : ~IsSpace(d[n])}
    IN  IF solid = {} THEN <<>>
        ELSE SubSeq(d, CHOOSE a \in solid : \A n \in solid : a <= n,
                       CHOOSE b \in solid : \A n \in solid : b >= n)

\* the description in capitals, for the words that have a capital form here
UpperWord(w) ==
    CASE w \in {"debug", "Debug"} -> "DEBUG"
      [] w \in {"full cleanup", "Full cleanup"} -> "FULL CLEANUP"
      [] w \in {"find and fix errors", "Find and fix errors"} -> "FIND AND FIX ERRORS"
      [] OTHER -> w

Upper(d) == [n \in 1..Len(d) |-> UpperWord(d[n])]

\* the synonym phrases and their task ids
SynonymPairs ==
    {<<"find and fix errors", "debug">>, <<"find and fix error", "debug">>,
     <<"find and fix bugs", "debug">>, <<"improve structure", "refactor">>,
     <<"improve structure and readability", "refactor">>, <<"full cleanup", "debug-refactor">>,
     <<"optimize speed", "performance">>, <<"optimize performance", "performance">>,
     <<"add comments", "comments">>, <<"document code", "comments">>,
     <<"document the code", "comments">>}

\* what a normalized description resolves to
Resolution(k) ==
    IF Len(k) # 1 THEN None
    ELSE IF k[1] \in {"debug", "refactor", "debug-refactor", "performance", "comments"} THEN k[1]
    ELSE IF \E sp \in SynonymPairs : sp[1] = k[1]
         THEN (CHOOSE sp \in SynonymPairs : sp[1] = k[1])[2]
    ELSE None

\* C12: map_description_to_task resolves a description by its trimmed,
\* lower-cased form alone: to that form when it is a task id, to the synonym
\* table's task id when it is one of its phrases, to None otherwise (the empty
\* string included); padding the description with whitespace or writing it in
\* capitals does not change the result.
C12_DescriptionMapping ==
    pc = "mapped" =>
        LET d == req.task_description.text
        IN  /\ taskId = Resolution(Lower(Trimmed(d)))
            /\ \A l, r \in {<<>>, <<" ">>, <<"\n", " ">>} :
                  MapDescriptionToTask(l \o d \o r) = taskId
            /\ MapDescriptionToTask(Upper(d)) = taskId

\* C12 witness: a synonym phrase in capitals with whitespace on both sides
\* resolved to its task id.
C12_Witness ==
    /\ pc = "mapped" /\ taskId = "debug-refactor"
    /\ Len(req.task_description.text) = 3
    /\ IsSpace(req.task_description.text[1]) /\ IsSpace(req.task_description.text[3])
    /\ req.task_description.text[2] = "FULL CLEANUP"

\* the number of places where part occurs in text
Occurrences(text, part) ==
    Cardinality({n \in 0..(Len(text) - Len(part)) : SubSeq(text, n + 1, n + Len(part)) = part})

\* the prompt for the empty code
EmptyPrompt == BuildPrompt(<<>>, req.task, req.language).text

\* the two task texts are in the prompt, and are not empty
HasTaskTexts ==
    /\ TaskDescription(req.task) # "" /\ TaskSpecificInstructions(req.task) # ""
    /\ Occurrences(prompt.text, <<TaskDescription(req.task)>>) = 1
    /\ Occurrences(prompt.text, <<TaskSpecificInstructions(req.task)>>) = 1

\* C14 as stated: for every task id, language and code blob, the empty blob and
\* blobs of template text included, the prompt is not empty, holds the task's
\* two texts and holds the code exactly once.
C14_CodeExactlyOnce ==
    pc = "composed" =>
        /\ prompt.text # <<>> /\ prompt.len > 0
        /\ HasTaskTexts
        /\ Occurrences(prompt.text, req.code) = 1

\* C14 amended: the prompt is not empty, holds the task's two texts, and is the
\* template with the code spliced in at one place, so it holds the code; the
\* code occurs in it exactly once when it is not empty and shares no text with
\* the template.
C14_CodeSplicedOnce ==
    pc = "composed" =>
        /\ prompt.text # <<>> /\ prompt.len > 0
        /\ HasTaskTexts
        /\ Len(prompt.text) = Len(EmptyPrompt) + Len(req.code)
        /\ \E n \in 0..Len(EmptyPrompt) :
              prompt.text = SubSeq(EmptyPrompt, 1, n) \o req.code
                              \o SubSeq(EmptyPrompt, n + 1, Len(EmptyPrompt))
        /\ Occurrences(prompt.text, req.code) >= 1
        /\ (req.code # <<>> /\ Words(req.code) \cap Words(EmptyPrompt) = {})
              => Occurrences(prompt.text, req.code) = 1

\* C14 witness: a code blob that is a fence, which the template holds twice
\* itself, is in the prompt three times.
C14_Witness ==
    /\ pc = "composed" /\ req.code = <<Fence>>
    /\ Occurrences(prompt.text, req.code) = 3

\* ------------------------------------------------------------------ endpoint properties
\* the task id the request names: its task, and only without a task what its
\* description resolves to
NamedTask ==
    IF req.task # None THEN req.task
    ELSE IF req.task_description.absent THEN None
    ELSE Resolution(Lower(Trimmed(req.task_description.text)))

\* C13: a request to the endpoint goes on to the prompt only with the task id
\* it names (its task, or without a task what its description resolves to); a
\* request that names none is rejected with the validation error, answered 400,
\* and no prompt is built, no credential looked up and no provider called.
C13_TaskValidation ==
    (entry = "endpoint" /\ pc # "start") =>
        IF NamedTask = None
        THEN /\ pc \in {"raised", "done"}
             /\ exc = [type |-> "ValueError", msg |-> <<"Invalid or missing task.">>]
             /\ taskId = None /\ prompt = NoPrompt /\ apiKey = None /\ model = None
             /\ calls = <<>>
             /\ pc = "done" => response.status = 400 /\ response.body = NoResponse
        ELSE /\ taskId = NamedTask
             /\ exc # [type |-> "ValueError", msg |-> <<"Invalid or missing task.">>]
             /\ pc # "build" => prompt # NoPrompt

\* C13 witness: a request without a task whose description resolves to nothing
\* was answered 400 with nothing built or called.
C13_Witness ==
    /\ entry = "endpoint" /\ pc = "done" /\ response.status = 400
    /\ req.task = None /\ ~req.task_description.absent
    /\ req.task_description.text = <<"unknown task">>
    /\ prompt = NoPrompt /\ calls = <<>>

\* ------------------------------------------------------------------ concurrency properties
\* C15 as stated: when the concurrent requests carry different credentials,
\* every generate_content call runs with the key of its own request.
C15_OwnCredential ==
    (\A t, u \in Threads : t # u => tkey[t] # tkey[u]) =>
        \A t \in Threads : tused[t] # None => tused[t] = tkey[t]

\* ------------------------------------------------------------------ classification properties
\* the error in flight is the dispatcher's quota-exceeded error
RaisedQuotaExceeded ==
    /\ exc.type = "RuntimeError" /\ Len(exc.msg) >= 3
    /\ SubSeq(exc.msg, 1, 3) \in {<<"Gemini", "quota", "exceeded:">>, <<"OpenAI", "quota", "exceeded:">>}

\* the error in flight is the dispatcher's credential-rejected error
RaisedCredentialRejected ==
    /\ exc.type = "RuntimeError"
    /\ \/ /\ Len(exc.msg) >= 8
          /\ SubSeq(exc.msg, 1, 8)
                = <<"Gemini", "API", "key", "invalid", "or", "reported", "as", "leaked:">>
       \/ /\ Len(exc.msg) >= 6
          /\ SubSeq(exc.msg, 1, 6) = <<"OpenAI", "API", "key", "invalid", "or", "leaked:">>

\* C16 as stated: for every provider error message and every provider family,
\* when the dispatcher has raised its quota-exceeded error the endpoint's answer
\* to it is 429, and when it has raised its credential-rejected error the
\* answer is 403.
C16_ClassesAgree ==
    (Dispatched /\ ProviderRaised /\ pc \in {"raised", "done"}) =>
        /\ RaisedQuotaExceeded =>
              /\ ErrorResponse(exc).status = 429
              /\ (entry = "endpoint" /\ pc = "done") => response.status = 429
        /\ RaisedCredentialRejected =>
              /\ ErrorResponse(exc).status = 403
              /\ (entry = "endpoint" /\ pc = "done") => response.status = 403

====
